---- MODULE Spec2Model ----
(***************************************************************************)
(* Model of ballontranslator/ui/fontformatpanel.py: the cursor-restoring   *)
(* decorator restore_textcursor, the set_textblk_* formatting functions,   *)
(* the AlignmentBtnGroup and the FontFormatPanel handlers.                 *)
(*                                                                         *)
(* A rich-text document is the sequence of its characters; a paragraph     *)
(* separator is a character with sep = TRUE.  Character i (1-based) lies   *)
(* between the cursor positions i-1 and i, so a selection [a, b) covers    *)
(* the characters a+1 .. b and rootFrame().lastPosition() is Len(doc).     *)
(* The block character format of a block that starts after a separator is  *)
(* the format of that separator; the first block's is kept in blockFmt0.   *)
(* Point sizes are counted in tenths of a point (105 is 10.5pt).           *)
(***************************************************************************)
EXTENDS Integers, Sequences, FiniteSets, TLC

VARIABLES
    blkitem,             \* the text block item on the canvas
    last,                \* the last decorated call on it: function, value, block before
    textblk_item,        \* FontFormatPanel.textblk_item: None or "blk"
    active_format,       \* FontFormatPanel.active_format: a FontFormat object
    formats,             \* the FontFormat objects' fields
    focusOnColorDialog,  \* FontFormatPanel.focusOnColorDialog
    restoring_textblk,   \* FontFormatPanel.restoring_textblk
    checked,             \* the three AlignmentCheckers' check states
    widgets,             \* the values the panel's other widgets show
    sig,                 \* the last panel operation and the signals it emitted
    hist,                \* whether the checkers were ever set; whether a colour is being picked
    steps                \* number of format-changing handler runs

vars == <<blkitem, last, textblk_item, active_format, formats,
          focusOnColorDialog, restoring_textblk, checked, widgets,
          sig, hist, steps>>

panelVars == <<textblk_item, active_format, formats, focusOnColorDialog,
               restoring_textblk, checked, widgets, sig, hist, steps>>

----------------------------------------------------------------------------
(* Bounds *)

MaxLen == 3

MaxSteps == 1

----------------------------------------------------------------------------
(* Values *)

Bold == 75

Normal == 50

None == "None"

Families == {"F1", "F2"}

FontSizes == {100, 105}

Weights == {Normal, Bold}

Colors == {"c1", "c2"}

fmtA == [family |-> "F1", size |-> 105, weight |-> Normal, italic |-> FALSE,
         underline |-> FALSE, wordSpacing |-> 0, letterSpacing |-> 0,
         color |-> "c1"]

fmtB == [family |-> "F2", size |-> 120, weight |-> Bold, italic |-> TRUE,
         underline |-> TRUE, wordSpacing |-> 1, letterSpacing |-> 2,
         color |-> "c2"]

BaseFmts == {fmtA, fmtB}

Min(a, b) == IF a < b THEN a ELSE b

Max(a, b) == IF a < b THEN b ELSE a

----------------------------------------------------------------------------
(* QTextCursor *)

hasSelection(cursor) == cursor.anchor # cursor.position

selectionStart(cursor) == Min(cursor.anchor, cursor.position)

selectionEnd(cursor) == Max(cursor.anchor, cursor.position)

lastPosition(doc) == Len(doc)

selectDocument(doc) == [anchor |-> 0, position |-> lastPosition(doc)]

(* QTextCharFormat.merge: the properties set in mod override those of fmt. *)
Merge(fmt, mod) ==
    [k \in DOMAIN fmt |-> IF k \in DOMAIN mod THEN mod[k] ELSE fmt[k]]

(* Characters of the selection [a, b). *)
InSel(i, a, b) == a < i /\ i <= b

(* mergeCharFormat reaching one character before the selection. *)
mergeCharFormat_offByOne(doc, cursor, mod) ==
    [i \in 1..Len(doc) |->
        IF selectionStart(cursor) <= i /\ i <= selectionEnd(cursor)
        THEN [doc[i] EXCEPT !.fmt = Merge(@, mod)]
        ELSE doc[i]]

(* cursor.mergeCharFormat(format): with a selection, every character of it
   is merged; without one only the cursor's own format changes. *)
mergeCharFormat(doc, cursor, mod) ==
    [i \in 1..Len(doc) |->
        IF InSel(i, selectionStart(cursor), selectionEnd(cursor))
        THEN [doc[i] EXCEPT !.fmt = Merge(@, mod)]
        ELSE doc[i]]

(* cursor.setCharFormat(format) on the selection [a, b). *)
setCharFormat(doc, a, b, fmt) ==
    [i \in 1..Len(doc) |->
        IF InSel(i, a, b) THEN [doc[i] EXCEPT !.fmt = fmt] ELSE doc[i]]

(* Start positions of the document's blocks. *)
BlockStarts(doc) == {0} \cup {i \in 1..Len(doc) : doc[i].sep}

blocksFind(doc, pos) ==
    CHOOSE s \in BlockStarts(doc) :
        s <= pos /\ \A t \in BlockStarts(doc) : t <= pos => t <= s

(* Blocks that cursor.mergeBlockCharFormat touches: from the block holding
   the selection start to the block holding the selection end. *)
BlocksOfCursor(doc, cursor) ==
    {s \in BlockStarts(doc) :
        /\ blocksFind(doc, selectionStart(cursor)) <= s
        /\ s <= blocksFind(doc, selectionEnd(cursor))}

(* cursor.mergeBlockCharFormat(format): the block character format of each
   block of the cursor's range is merged. *)
mergeBlockCharFormat(b, cursor, mod) ==
    LET starts == BlocksOfCursor(b.doc, cursor) IN
    [b EXCEPT
        !.blockFmt0 = IF 0 \in starts THEN Merge(@, mod) ELSE @,
        !.doc = [i \in 1..Len(b.doc) |->
                    IF i \in starts
                    THEN [b.doc[i] EXCEPT !.fmt = Merge(@, mod)]
                    ELSE b.doc[i]]]

----------------------------------------------------------------------------
(* The formatting functions.  Each takes the block item, the cursor the
   decorator hands it (its selection is the target range) and the value. *)

(* misc.set_html_color on the HTML of a selection: the same characters,
   coloured rgb. *)
set_html_color(frag, rgb) ==
    [i \in 1..Len(frag) |-> [frag[i] EXCEPT !.fmt.color = rgb]]

set_textblk_color(b, cursor, rgb) ==
    IF Len(b.doc) # 0
    THEN LET a == selectionStart(cursor)
             e == selectionEnd(cursor)
             fraghtml == SubSeq(b.doc, a + 1, e)
         IN [b EXCEPT !.doc = SubSeq(b.doc, 1, a)
                              \o set_html_color(fraghtml, rgb)
                              \o SubSeq(b.doc, e + 1, Len(b.doc))]
    ELSE b

(* set_textblk_fontsize testing only the start of the selection before it
   sets the default font. *)
set_textblk_fontsize_startOnly(b, cursor, fontsize) ==
    LET format == [size |-> fontsize]
        b1 == [b EXCEPT !.doc = mergeCharFormat(b.doc, cursor, format)]
        b2 == IF selectionStart(cursor) = 0
              THEN [b1 EXCEPT !.defaultSize = fontsize]
              ELSE b1
    IN mergeBlockCharFormat(b2, cursor, format)

set_textblk_fontsize(b, cursor, fontsize) ==
    LET format == [size |-> fontsize]
        b1 == [b EXCEPT !.doc = mergeCharFormat(b.doc, cursor, format)]
        lastpos == lastPosition(b1.doc)
        b2 == IF selectionStart(cursor) = 0 /\ selectionEnd(cursor) = lastpos
              THEN [b1 EXCEPT !.defaultSize = fontsize]
              ELSE b1
    IN mergeBlockCharFormat(b2, cursor, format)

set_textblk_weight(b, cursor, weight) ==
    [b EXCEPT !.doc = mergeCharFormat(b.doc, cursor, [weight |-> weight])]

set_textblk_italic(b, cursor, italic) ==
    [b EXCEPT !.doc = mergeCharFormat(b.doc, cursor, [italic |-> italic])]

set_textblk_underline(b, cursor, underline) ==
    [b EXCEPT !.doc = mergeCharFormat(b.doc, cursor, [underline |-> underline])]

set_textblk_alignment(b, cursor, alignment) ==
    [b EXCEPT !.alignment = alignment]

set_textblk_strokewidth(b, cursor, stroke_width) ==
    [b EXCEPT !.stroke_width = stroke_width]

set_textblk_strokecolor(b, cursor, stroke_color) ==
    [b EXCEPT !.stroke_color = stroke_color]

set_textblk_linespacing(b, cursor, line_spacing) ==
    [b EXCEPT !.line_spacing = line_spacing]

(* The text fragments of the document from character i on: within a block,
   the maximal runs of characters of one format; a block's iterator leaves
   out the paragraph separator. *)
RECURSIVE FragLast(_, _)
FragLast(doc, i) ==
    IF i < Len(doc) /\ ~doc[i + 1].sep /\ doc[i + 1].fmt = doc[i].fmt
    THEN FragLast(doc, i + 1)
    ELSE i

RECURSIVE Fragments(_, _)
Fragments(doc, i) ==
    IF i > Len(doc) THEN <<>>
    ELSE IF doc[i].sep THEN Fragments(doc, i + 1)
    ELSE LET j == FragLast(doc, i)
         IN <<[position |-> i - 1, length |-> j - i + 1]>>
            \o Fragments(doc, j + 1)

(* An int parameter of a Qt constructor given a float, and Python's int():
   the fraction is dropped. *)
IntArg(tenths) == (tenths \div 10) * 10

(* QFont(family, cfont.pointSizeF(), cfont.weight(), cfont.italic()) with
   the word and letter spacing copied, set on the fragment's format, and the
   underline set again. QFont's pointSize parameter is an int. *)
FamilyFormat(cfmt, family) ==
    [cfmt EXCEPT !.family = family,
                 !.size = IntArg(cfmt.size),
                 !.weight = cfmt.weight,
                 !.italic = cfmt.italic,
                 !.wordSpacing = cfmt.wordSpacing,
                 !.letterSpacing = cfmt.letterSpacing,
                 !.underline = cfmt.underline]

(* The loop of set_textblk_family over the fragments frags. *)
RECURSIVE FamilyLoop(_, _, _, _, _)
FamilyLoop(doc, frags, sel_start, sel_end, family) ==
    IF frags = <<>> THEN doc
    ELSE LET fragment == Head(frags)
             frag_start == fragment.position
             frag_end == frag_start + fragment.length
             pos2 == Min(frag_end, sel_end)
             pos1 == Max(frag_start, sel_start)
             doc1 == IF pos1 < pos2
                     THEN setCharFormat(doc, pos1, pos2,
                              FamilyFormat(doc[frag_start + 1].fmt, family))
                     ELSE doc
         IN FamilyLoop(doc1, Tail(frags), sel_start, sel_end, family)

set_textblk_family(b, cursor, family) ==
    [b EXCEPT !.doc = FamilyLoop(b.doc, Fragments(b.doc, 1),
                                 selectionStart(cursor), selectionEnd(cursor),
                                 family)]

formatting_func(func, b, cursor, arg) ==
    CASE func = "color" -> set_textblk_color(b, cursor, arg)
      [] func = "fontsize" -> set_textblk_fontsize(b, cursor, arg)
      [] func = "weight" -> set_textblk_weight(b, cursor, arg)
      [] func = "italic" -> set_textblk_italic(b, cursor, arg)
      [] func = "underline" -> set_textblk_underline(b, cursor, arg)
      [] func = "alignment" -> set_textblk_alignment(b, cursor, arg)
      [] func = "strokewidth" -> set_textblk_strokewidth(b, cursor, arg)
      [] func = "strokecolor" -> set_textblk_strokecolor(b, cursor, arg)
      [] func = "family" -> set_textblk_family(b, cursor, arg)
      [] func = "linespacing" -> set_textblk_linespacing(b, cursor, arg)

(* The cursor the decorator hands to the formatting function. *)
TargetCursor(b) ==
    IF hasSelection(b.cursor) THEN b.cursor ELSE selectDocument(b.doc)

(* The cursor the decorator sets on the block after the formatting. *)
RestoredCursor(set_all, pos1, pos2) ==
    IF ~set_all
    THEN [anchor |-> Min(pos1, pos2), position |-> Max(pos1, pos2)]
    ELSE [anchor |-> pos1, position |-> pos1]

(* restore_textcursor(formatting_func)(blkitem, arg): item is None or names
   the block b. *)
restore_textcursor(func, item, b, arg) ==
    IF item = None THEN b
    ELSE LET stroke_width_before == b.stroke_width
             set_all == ~hasSelection(b.cursor)
             pos1 == b.cursor.position
             pos2 == b.cursor.anchor
             b1 == formatting_func(func, b, TargetCursor(b), arg)
             b2 == [b1 EXCEPT !.cursor = RestoredCursor(set_all, pos1, pos2)]
         IN [b2 EXCEPT !.repainted = (b2.stroke_width # stroke_width_before)]

(* What the last decorated call on a block was given and found. *)
NoLast == [func |-> "none"]

LastCall(func, b, arg) ==
    [func |-> func, arg |-> arg, pre |-> b,
     set_all |-> ~hasSelection(b.cursor),
     sel_start |-> selectionStart(TargetCursor(b)),
     sel_end |-> selectionEnd(TargetCursor(b))]

----------------------------------------------------------------------------
(* Values of the panel's inputs *)

StrokeWidths == {0, 1}

LineSpacings == {10, 12}

Alignments == 0..2

(* A FontFormat object (misc.FontFormat); G is the global format, B the
   format object of the selected block. *)
FormatRefs == {"G", "B"}

GlobalDefault ==
    [family |-> "F1", size |-> 120, stroke_width |-> 0, frgb |-> "c1",
     srgb |-> "c1", bold |-> FALSE, underline |-> FALSE, italic |-> FALSE,
     alignment |-> 0, vertical |-> FALSE, weight |-> Normal,
     line_spacing |-> 12]

(* Where the keyboard focus is when the panel asks, seen from the panel: no
   widget, a widget outside the panel, the family box (a child of the
   panel), another child, a child of a child, or deeper inside. *)
Focuses == {"nowidget", "outside", "familybox", "child", "grandchild",
            "deeper"}

(* A text block item with document doc and text cursor cursor. *)
NewBlock(doc, cursor) ==
    [doc |-> doc, blockFmt0 |-> fmtA, defaultSize |-> 120, cursor |-> cursor,
     stroke_width |-> 0, stroke_color |-> "c1", alignment |-> 0,
     line_spacing |-> 12, vertical |-> FALSE, repainted |-> FALSE]

Docs(n) == [1..n -> [sep : BOOLEAN, fmt : BaseFmts]]

Cursors(n) == [anchor : 0..n, position : 0..n]

(* FontFormatPanel.__init__ *)
InitPanel ==
    /\ textblk_item = None
    /\ active_format = "G"
    /\ formats = [r \in FormatRefs |-> GlobalDefault]
    /\ focusOnColorDialog = FALSE
    /\ restoring_textblk = FALSE
    /\ checked = [left |-> FALSE, center |-> FALSE, right |-> FALSE]
    /\ widgets = [fontsize |-> 120, family |-> "F1", color |-> "c1",
                  stroke_color |-> "c1", stroke_width |-> 0,
                  line_spacing |-> 12, vertical |-> FALSE, bold |-> FALSE,
                  underline |-> FALSE, italic |-> FALSE]
    /\ sig = [op |-> "none"]
    /\ hist = [aligned |-> FALSE, picking |-> FALSE]
    /\ steps = 0

----------------------------------------------------------------------------
(* The formatting functions called on a block, over every small document
   and every cursor state. *)

InitFmt ==
    /\ \E n \in 0..MaxLen : \E doc \in Docs(n) : \E cursor \in Cursors(n) :
          blkitem = NewBlock(doc, cursor)
    /\ last = NoLast
    /\ InitPanel

(* No decorated call has been made yet. *)
Fresh == last.func = "none"

Call(func, arg) ==
    /\ blkitem' = restore_textcursor(func, "blk", blkitem, arg)
    /\ last' = LastCall(func, blkitem, arg)
    /\ UNCHANGED panelVars

CallColor ==
    \E rgb \in Colors :
        /\ Fresh
        /\ Call("color", rgb)

CallFontsize ==
    \E fontsize \in FontSizes :
        /\ Fresh
        /\ Call("fontsize", fontsize)

CallWeight ==
    \E weight \in Weights :
        /\ Fresh
        /\ Call("weight", weight)

CallItalic ==
    \E italic \in BOOLEAN :
        /\ Fresh
        /\ Call("italic", italic)

CallUnderline ==
    \E underline \in BOOLEAN :
        /\ Fresh
        /\ Call("underline", underline)

CallAlignment ==
    \E alignment \in Alignments :
        /\ Fresh
        /\ Call("alignment", alignment)

CallStrokewidth ==
    \E w \in StrokeWidths :
        /\ Fresh
        /\ Call("strokewidth", w)

CallStrokecolor ==
    \E rgb \in Colors :
        /\ Fresh
        /\ Call("strokecolor", rgb)

CallFamily ==
    \E family \in Families :
        /\ Fresh
        /\ Call("family", family)

CallLinespacing ==
    \E ls \in LineSpacings :
        /\ Fresh
        /\ Call("linespacing", ls)

NextFmt ==
    \/ CallColor
    \/ CallFontsize
    \/ CallWeight
    \/ CallItalic
    \/ CallUnderline
    \/ CallAlignment
    \/ CallStrokewidth
    \/ CallStrokecolor
    \/ CallFamily
    \/ CallLinespacing

SpecFmt == InitFmt /\ [][NextFmt]_vars

----------------------------------------------------------------------------
(* AlignmentBtnGroup *)

Checkers == <<"left", "center", "right">>

OnlyChecked(btn) == [left |-> btn = "left", center |-> btn = "center",
                     right |-> btn = "right"]

(* alignBtnPressed emitting the centre index for the right checker. *)
alignBtnPressed_wrongIndex(btn) ==
    IF btn = "left" THEN [checked |-> OnlyChecked("left"), emit |-> 0]
    ELSE IF btn = "right" THEN [checked |-> OnlyChecked("right"), emit |-> 1]
    ELSE [checked |-> OnlyChecked("center"), emit |-> 1]

(* alignBtnPressed with sender btn: the check states it leaves and the
   index it emits with set_alignment. *)
alignBtnPressed(btn) ==
    IF btn = "left" THEN [checked |-> OnlyChecked("left"), emit |-> 0]
    ELSE IF btn = "right" THEN [checked |-> OnlyChecked("right"), emit |-> 2]
    ELSE [checked |-> OnlyChecked("center"), emit |-> 1]

(* setAlignment(alignment): the check states it leaves; it emits nothing. *)
setAlignment(alignment) ==
    IF alignment = 0 THEN OnlyChecked("left")
    ELSE IF alignment = 1 THEN OnlyChecked("center")
    ELSE OnlyChecked("right")

----------------------------------------------------------------------------
(* FontFormatPanel *)

global_format == "G"

(* FontFormat defines no comparison: == on two FontFormat objects is
   identity. *)
FontFormatEq(f1, f2) == f1 = f2

(* restoreTextBlkItem emitting whatever the active format is. *)
restoreTextBlkItem_always(af) == 1

(* restoreTextBlkItem: the number of global_format_changed it emits. *)
restoreTextBlkItem(af) == IF FontFormatEq(af, global_format) THEN 1 ELSE 0

(* The character format at the block's text cursor. *)
CursorCharFormat(b) ==
    IF b.cursor.position > 0 THEN b.doc[b.cursor.position].fmt
    ELSE b.blockFmt0

(* TextBlkItem.get_fontformat: the block's format as a FontFormat. *)
get_fontformat(b) ==
    LET cf == CursorCharFormat(b) IN
    [family |-> cf.family, size |-> cf.size, stroke_width |-> b.stroke_width,
     frgb |-> cf.color, srgb |-> b.stroke_color, bold |-> cf.weight = Bold,
     underline |-> cf.underline, italic |-> cf.italic,
     alignment |-> b.alignment, vertical |-> b.vertical,
     weight |-> cf.weight, line_spacing |-> b.line_spacing]

(* set_active_format: the values the widgets show afterwards. *)
WidgetsOf(font_format) ==
    [fontsize |-> IntArg(font_format.size), family |-> font_format.family,
     color |-> font_format.frgb, stroke_color |-> font_format.srgb,
     stroke_width |-> font_format.stroke_width,
     line_spacing |-> font_format.line_spacing,
     vertical |-> font_format.vertical, bold |-> font_format.bold,
     underline |-> font_format.underline, italic |-> font_format.italic]

(* The parent widget of app.focusWidget(), seen from the panel: None when
   no widget has the focus, the panel, a child of the panel, or another. *)
focus_p(f) ==
    CASE f = "nowidget" -> None
      [] f \in {"familybox", "child"} -> "self"
      [] f = "grandchild" -> "child_of_self"
      [] OTHER -> "other"

(* focus_on_fmtoptions without the colour dialog test. *)
focus_on_fmtoptions_noDialog(fdlg, f) ==
    IF focus_p(f) # None
    THEN focus_p(f) = "self" \/ focus_p(f) = "child_of_self"
    ELSE FALSE

(* set_textblk_item(None): whether the focus counts as being on the format
   options. *)
focus_on_fmtoptions(fdlg, f) ==
    IF fdlg THEN TRUE
    ELSE IF focus_p(f) # None
         THEN focus_p(f) = "self" \/ focus_p(f) = "child_of_self"
         ELSE FALSE

(* The record of a panel operation: its name, the FontFormat field and
   value it wrote, the number of global_format_changed signals and the
   set_alignment index (or None) emitted during it. *)
Sig(op, field, value, emitted, align) ==
    [op |-> op, field |-> field, value |-> value,
     global_format_changed |-> emitted, set_alignment |-> align]

(* A decorated formatting function called with self.textblk_item. *)
Formatted(func, arg) ==
    restore_textcursor(func, textblk_item, blkitem, arg)

NextLast(func, arg) ==
    IF textblk_item = None THEN last ELSE LastCall(func, blkitem, arg)

changingColor ==
    /\ focusOnColorDialog' = TRUE
    /\ sig' = Sig("changingColor", None, None, 0, None)
    /\ hist' = [hist EXCEPT !.picking = TRUE]
    /\ UNCHANGED <<blkitem, last, textblk_item, active_format, formats,
                   restoring_textblk, checked, widgets, steps>>

onColorChanged ==
    \E rgb \in Colors, is_valid \in BOOLEAN :
        /\ steps < MaxSteps
        /\ steps' = steps + 1
        /\ widgets' = [widgets EXCEPT !.color = rgb]
        /\ formats' = [formats EXCEPT ![active_format].frgb = rgb]
        /\ focusOnColorDialog' = FALSE
        /\ sig' = Sig("onColorChanged", "frgb", rgb,
                      restoreTextBlkItem(active_format), None)
        /\ blkitem' = IF is_valid THEN Formatted("color", rgb) ELSE blkitem
        /\ last' = IF is_valid THEN NextLast("color", rgb) ELSE last
        /\ hist' = [hist EXCEPT !.picking = FALSE]
        /\ UNCHANGED <<textblk_item, active_format, restoring_textblk,
                       checked>>

onStrokeColorChanged ==
    \E rgb \in Colors, is_valid \in BOOLEAN :
        /\ steps < MaxSteps
        /\ steps' = steps + 1
        /\ widgets' = [widgets EXCEPT !.stroke_color = rgb]
        /\ formats' = [formats EXCEPT ![active_format].srgb = rgb]
        /\ focusOnColorDialog' = FALSE
        /\ sig' = Sig("onStrokeColorChanged", "srgb", rgb,
                      restoreTextBlkItem(active_format), None)
        /\ blkitem' = IF is_valid THEN Formatted("strokecolor", rgb)
                      ELSE blkitem
        /\ last' = IF is_valid THEN NextLast("strokecolor", rgb) ELSE last
        /\ hist' = [hist EXCEPT !.picking = FALSE]
        /\ UNCHANGED <<textblk_item, active_format, restoring_textblk,
                       checked>>

(* What a handler other than the colour handlers leaves alone. *)
HandlerFrame ==
    /\ steps < MaxSteps
    /\ steps' = steps + 1
    /\ UNCHANGED <<textblk_item, active_format, focusOnColorDialog,
                   restoring_textblk, hist>>

onApplyFontsize ==
    \E font_size \in FontSizes :
        /\ HandlerFrame
        /\ widgets' = [widgets EXCEPT !.fontsize = font_size]
        /\ formats' = [formats EXCEPT ![active_format].size = font_size]
        /\ sig' = Sig("onApplyFontsize", "size", font_size,
                      restoreTextBlkItem(active_format), None)
        /\ blkitem' = Formatted("fontsize", font_size)
        /\ last' = NextLast("fontsize", font_size)
        /\ UNCHANGED checked

onfontFamilyChanged ==
    \E family \in Families, f \in Focuses :
        /\ HandlerFrame
        /\ widgets' = [widgets EXCEPT !.family = family]
        /\ IF f = "familybox"
           THEN /\ formats' = [formats EXCEPT ![active_format].family = family]
                /\ sig' = Sig("onfontFamilyChanged", "family", family,
                              restoreTextBlkItem(active_format), None)
                /\ blkitem' = Formatted("family", family)
                /\ last' = NextLast("family", family)
           ELSE /\ sig' = Sig("ignored", None, None, 0, None)
                /\ UNCHANGED <<formats, blkitem, last>>
        /\ UNCHANGED checked

onfontBoldChanged ==
    LET is_checked == ~widgets.bold
        weight == IF is_checked THEN Bold ELSE Normal
    IN  /\ HandlerFrame
        /\ widgets' = [widgets EXCEPT !.bold = is_checked]
        /\ formats' = [formats EXCEPT ![active_format].weight = weight,
                                      ![active_format].bold = is_checked]
        /\ sig' = Sig("onfontBoldChanged", "weight", weight,
                      restoreTextBlkItem(active_format), None)
        /\ blkitem' = Formatted("weight", weight)
        /\ last' = NextLast("weight", weight)
        /\ UNCHANGED checked

onfontUnderlineChanged ==
    LET is_checked == ~widgets.underline
    IN  /\ HandlerFrame
        /\ widgets' = [widgets EXCEPT !.underline = is_checked]
        /\ formats' = [formats EXCEPT ![active_format].underline = is_checked]
        /\ sig' = Sig("onfontUnderlineChanged", "underline", is_checked,
                      restoreTextBlkItem(active_format), None)
        /\ blkitem' = Formatted("underline", is_checked)
        /\ last' = NextLast("underline", is_checked)
        /\ UNCHANGED checked

onfontItalicChanged ==
    LET is_checked == ~widgets.italic
    IN  /\ HandlerFrame
        /\ widgets' = [widgets EXCEPT !.italic = is_checked]
        /\ formats' = [formats EXCEPT ![active_format].italic = is_checked]
        /\ sig' = Sig("onfontItalicChanged", "italic", is_checked,
                      restoreTextBlkItem(active_format), None)
        /\ blkitem' = Formatted("italic", is_checked)
        /\ last' = NextLast("italic", is_checked)
        /\ UNCHANGED checked

(* AlignmentChecker.mousePressEvent on a checked checker: the event is
   accepted and nothing else happens. *)
mousePressChecked ==
    \E btn \in {"left", "center", "right"} :
        /\ checked[btn]
        /\ sig' = Sig("mousePressChecked", btn, None, 0, None)
        /\ UNCHANGED <<blkitem, last, textblk_item, active_format, formats,
                       focusOnColorDialog, restoring_textblk, checked,
                       widgets, hist, steps>>

(* A mouse press on an unchecked checker: the click runs alignBtnPressed
   with that checker as sender, and its set_alignment signal runs
   onAlignmentChanged. *)
mousePressClick ==
    \E btn \in {"left", "center", "right"} :
        LET pressed == alignBtnPressed(btn)
            alignment == pressed.emit
        IN  /\ ~checked[btn]
            /\ checked' = pressed.checked
            /\ formats' = [formats EXCEPT ![active_format].alignment = alignment]
            /\ blkitem' = Formatted("alignment", alignment)
            /\ last' = NextLast("alignment", alignment)
            /\ sig' = Sig("alignBtnPressed", "alignment", alignment,
                          restoreTextBlkItem(active_format), alignment)
            /\ hist' = [hist EXCEPT !.aligned = TRUE]
            /\ UNCHANGED <<textblk_item, active_format, focusOnColorDialog,
                           restoring_textblk, widgets>>

onAlignmentChanged ==
    /\ steps < MaxSteps
    /\ steps' = steps + 1
    /\ mousePressClick

onOrientationChanged ==
    LET is_checked == ~widgets.vertical
    IN  /\ HandlerFrame
        /\ widgets' = [widgets EXCEPT !.vertical = is_checked]
        /\ formats' = [formats EXCEPT ![active_format].vertical = is_checked]
        /\ sig' = Sig("onOrientationChanged", "vertical", is_checked,
                      restoreTextBlkItem(active_format), None)
        /\ blkitem' = IF textblk_item # None
                      THEN [blkitem EXCEPT !.vertical = is_checked]
                      ELSE blkitem
        /\ UNCHANGED <<last, checked>>

onSrokeWidthChanged ==
    \E value \in StrokeWidths :
        /\ HandlerFrame
        /\ widgets' = [widgets EXCEPT !.stroke_width = value]
        /\ formats' = [formats EXCEPT ![active_format].stroke_width = value]
        /\ sig' = Sig("onSrokeWidthChanged", "stroke_width", value,
                      restoreTextBlkItem(active_format), None)
        /\ blkitem' = Formatted("strokewidth", value)
        /\ last' = NextLast("strokewidth", value)
        /\ UNCHANGED checked

onLinespacingChanged ==
    \E value \in LineSpacings :
        /\ HandlerFrame
        /\ widgets' = [widgets EXCEPT !.line_spacing = value]
        /\ formats' = [formats EXCEPT ![active_format].line_spacing = value]
        /\ sig' = Sig("onLinespacingChanged", "line_spacing", value,
                      restoreTextBlkItem(active_format), None)
        /\ blkitem' = Formatted("linespacing", value)
        /\ last' = NextLast("linespacing", value)
        /\ UNCHANGED checked

(* set_textblk_item(None), called with the keyboard focus at f *)
set_textblk_item_None ==
    \E f \in Focuses :
    /\ sig' = Sig("set_textblk_item_None", f, None, 0, None)
    /\ IF ~focus_on_fmtoptions(focusOnColorDialog, f)
       THEN /\ textblk_item' = None
            /\ active_format' = global_format
            /\ widgets' = WidgetsOf(formats[global_format])
            /\ checked' = setAlignment(formats[global_format].alignment)
            /\ hist' = [hist EXCEPT !.aligned = TRUE]
       ELSE UNCHANGED <<textblk_item, active_format, widgets, checked, hist>>
    /\ UNCHANGED <<blkitem, last, formats, focusOnColorDialog,
                   restoring_textblk, steps>>

(* set_textblk_item(textblk_item) with a block, called with
   restoring_textblk as the panel's owner has set it *)
set_textblk_item_blk ==
    \E restoring \in BOOLEAN :
    /\ restoring_textblk' = restoring
    /\ sig' = Sig("set_textblk_item_blk", None, None, 0, None)
    /\ IF ~restoring
       THEN LET blk_fmt == get_fontformat(blkitem)
            IN  /\ formats' = [formats EXCEPT !["B"] = blk_fmt]
                /\ textblk_item' = "blk"
                /\ active_format' = "B"
                /\ widgets' = WidgetsOf(blk_fmt)
                /\ checked' = setAlignment(blk_fmt.alignment)
                /\ hist' = [hist EXCEPT !.aligned = TRUE]
       ELSE UNCHANGED <<formats, textblk_item, active_format, widgets,
                        checked, hist>>
    /\ UNCHANGED <<blkitem, last, focusOnColorDialog, steps>>

(* The block on the canvas of the panel specifications. *)
PanelDoc == <<[sep |-> FALSE, fmt |-> fmtA], [sep |-> FALSE, fmt |-> fmtB]>>

InitWithPanel ==
    /\ \E cursor \in Cursors(Len(PanelDoc)) :
          blkitem = NewBlock(PanelDoc, cursor)
    /\ last = NoLast
    /\ InitPanel

NextPanel ==
    \/ changingColor
    \/ onColorChanged
    \/ onStrokeColorChanged
    \/ onApplyFontsize
    \/ onfontFamilyChanged
    \/ onfontBoldChanged
    \/ onfontUnderlineChanged
    \/ onfontItalicChanged
    \/ mousePressChecked
    \/ onAlignmentChanged
    \/ onOrientationChanged
    \/ onSrokeWidthChanged
    \/ onLinespacingChanged
    \/ set_textblk_item_None
    \/ set_textblk_item_blk

SpecPanel == InitWithPanel /\ [][NextPanel]_vars

(* The alignment buttons alone, pressed any number of times, with a block
   selected or not. *)
AlignClick == mousePressClick /\ UNCHANGED steps

NextAlign ==
    \/ mousePressChecked
    \/ AlignClick
    \/ set_textblk_item_None
    \/ set_textblk_item_blk

SpecAlign == InitWithPanel /\ [][NextAlign]_vars

----------------------------------------------------------------------------
(* Properties of the formatting functions (SpecFmt) *)

Called == last.func # "none"

PreDoc == last.pre.doc

PostDoc == blkitem.doc

(* The target range [TargetStart, TargetEnd) of the last call, from the
   cursor the block had when it was called. *)
HadSelection == last.pre.cursor.anchor # last.pre.cursor.position

TargetStart ==
    IF HadSelection
    THEN Min(last.pre.cursor.anchor, last.pre.cursor.position)
    ELSE 0

TargetEnd ==
    IF HadSelection
    THEN Max(last.pre.cursor.anchor, last.pre.cursor.position)
    ELSE Len(PreDoc)

InTarget(i) == TargetStart < i /\ i <= TargetEnd

SameText == Len(PostDoc) = Len(PreDoc)
            /\ \A i \in 1..Len(PreDoc) : PostDoc[i].sep = PreDoc[i].sep

(* fmt2 is fmt1 but for the attributes in attrs. *)
SameBut(fmt1, fmt2, attrs) ==
    \A k \in DOMAIN fmt1 \ attrs : fmt2[k] = fmt1[k]

(* C1: after a decorated formatting function has run on a block, the
   block's text cursor has the position and the anchor it had before the
   call, whatever the cursor state was. *)
C1_CursorPreserved ==
    Called => /\ blkitem.cursor.position = last.pre.cursor.position
              /\ blkitem.cursor.anchor = last.pre.cursor.anchor

CharAttrFuncs == {"weight", "italic", "underline"}

(* C2: set_textblk_weight/italic/underline give the new value to exactly
   the characters of the selection, or to every character when nothing is
   selected, and change no other attribute of any character. *)
C2_CharFormatOnTargetRange ==
    (Called /\ last.func \in CharAttrFuncs) =>
        /\ SameText
        /\ \A i \in 1..Len(PreDoc) :
              /\ SameBut(PreDoc[i].fmt, PostDoc[i].fmt, {last.func})
              /\ PostDoc[i].fmt[last.func] =
                    IF ~HadSelection \/ InTarget(i)
                    THEN last.arg
                    ELSE PreDoc[i].fmt[last.func]

C2_Witness ==
    /\ Called /\ last.func = "weight" /\ HadSelection
    /\ \E i, j \in 1..Len(PreDoc) :
          /\ InTarget(i) /\ PreDoc[i].fmt.weight # last.arg
          /\ PostDoc[i].fmt.weight = last.arg
          /\ ~InTarget(j) /\ PreDoc[j].fmt.weight # last.arg

(* The end position of the block that starts at s. *)
BlockEnd(doc, s) ==
    IF \E t \in (s + 1)..Len(doc) : doc[t].sep
    THEN (CHOOSE t \in (s + 1)..Len(doc) :
             doc[t].sep /\ \A u \in (s + 1)..(t - 1) : ~doc[u].sep) - 1
    ELSE Len(doc)

(* The block that starts at s shares a position with the target range. *)
BlockInTarget(s) == s <= TargetEnd /\ TargetStart <= BlockEnd(PreDoc, s)

CoversDocument == TargetStart = 0 /\ TargetEnd = Len(PreDoc)

(* C4: set_textblk_fontsize sets the document's default font size when the
   target range is the whole document (nothing selected, or everything
   selected) and leaves it alone for a proper sub-range; the new size goes
   to the characters of the target range and to the block character formats
   of the blocks in it, and nothing else changes. *)
C4_FontsizeDefaultFont ==
    (Called /\ last.func = "fontsize") =>
        /\ CoversDocument => blkitem.defaultSize = last.arg
        /\ ~CoversDocument => blkitem.defaultSize = last.pre.defaultSize
        /\ SameText
        /\ \A i \in 1..Len(PreDoc) :
              /\ SameBut(PreDoc[i].fmt, PostDoc[i].fmt, {"size"})
              /\ PostDoc[i].fmt.size =
                    IF InTarget(i) \/ (PreDoc[i].sep /\ BlockInTarget(i))
                    THEN last.arg
                    ELSE PreDoc[i].fmt.size
        /\ SameBut(last.pre.blockFmt0, blkitem.blockFmt0, {"size"})
        /\ blkitem.blockFmt0.size =
              IF BlockInTarget(0) THEN last.arg ELSE last.pre.blockFmt0.size

C4_Witness ==
    /\ Called /\ last.func = "fontsize" /\ HadSelection
    /\ TargetStart = 0 /\ TargetEnd < Len(PreDoc)
    /\ blkitem.defaultSize = last.pre.defaultSize
    /\ blkitem.defaultSize # last.arg
    /\ PostDoc[1].fmt.size = last.arg
    /\ PostDoc[Len(PostDoc)].fmt.size # last.arg

(* C5: set_textblk_family gives the new family to the text of the target
   range and changes nothing else: every text character of the range keeps
   its point size, weight, italic, underline and spacings, and every
   character outside the range keeps its whole format. *)
C5_FamilyOnly ==
    (Called /\ last.func = "family") =>
        /\ SameText
        /\ \A i \in 1..Len(PreDoc) :
              IF InTarget(i)
              THEN PreDoc[i].sep
                   \/ PostDoc[i].fmt = [PreDoc[i].fmt EXCEPT !.family = last.arg]
              ELSE PostDoc[i].fmt = PreDoc[i].fmt

----------------------------------------------------------------------------
(* Properties of the panel (SpecPanel) *)

(* One run of a handler that writes a field of active_format. *)
HandlerRan == steps' # steps /\ sig'.op # "ignored"

C3_Step ==
    HandlerRan =>
        /\ (textblk_item = None) <=> (active_format = global_format)
        /\ (sig'.global_format_changed = 1) <=> (textblk_item = None)
        /\ sig'.global_format_changed \in {0, 1}
        /\ textblk_item = None =>
              /\ formats'[global_format][sig'.field] = sig'.value
              /\ blkitem' = blkitem
        /\ textblk_item # None =>
              formats'[global_format] = formats[global_format]

(* C3: a handler that writes a field of active_format emits
   global_format_changed exactly when no block is selected; then the value
   is written into global_format and the block is not touched; with a block
   selected global_format is left as it was and nothing is emitted. *)
C3_BlockOrGlobal == [][C3_Step]_vars

C3_Witness ==
    /\ sig.op = "onColorChanged"
    /\ sig.global_format_changed = 1
    /\ textblk_item = None
    /\ sig.value = "c2"
    /\ formats[global_format].frgb = "c2"

ParentInPanel(f) == f \in {"familybox", "child", "grandchild"}

C6_Step ==
    /\ sig'.op = "set_textblk_item_None" =>
          IF focusOnColorDialog \/ ParentInPanel(sig'.field)
          THEN textblk_item' = textblk_item /\ active_format' = active_format
          ELSE textblk_item' = None /\ active_format' = global_format
    /\ (hist.picking /\ sig'.op = "set_textblk_item_None") =>
          textblk_item' = textblk_item
    /\ sig'.op \in {"onColorChanged", "onStrokeColorChanged"} =>
          ~focusOnColorDialog'

(* C6: set_textblk_item(None) leaves textblk_item and active_format alone
   when focusOnColorDialog is set or the focused widget's parent is the
   panel or a child of it, and otherwise deselects the block and makes the
   global format active; so no such call deselects between changingColor
   and the next colour handler, and a colour handler clears
   focusOnColorDialog. *)
C6_DeselectOnlyOutsidePanel == [][C6_Step]_vars

C6_Witness ==
    /\ sig.op = "set_textblk_item_None"
    /\ sig.field = "outside"
    /\ hist.picking
    /\ focusOnColorDialog
    /\ textblk_item = "blk"
    /\ active_format = "B"

----------------------------------------------------------------------------
(* Properties of the alignment buttons (SpecAlign) *)

CheckedSet == {btn \in {"left", "center", "right"} : checked[btn]}

(* C7: once alignBtnPressed or setAlignment has run, exactly one checker is
   checked; a press on the checked checker leaves it checked;
   alignBtnPressed emits the index of the checker that is then checked, and
   setAlignment emits nothing. *)
C7_AlignmentExclusive ==
    /\ hist.aligned => Cardinality(CheckedSet) = 1
    /\ sig.op = "mousePressChecked" => checked[sig.field]
    /\ sig.op = "alignBtnPressed" =>
          /\ sig.set_alignment \in 0..2
          /\ CheckedSet = {Checkers[sig.set_alignment + 1]}
    /\ sig.op \in {"set_textblk_item_None", "set_textblk_item_blk"} =>
          sig.set_alignment = None

C7_Witness ==
    /\ sig.op = "alignBtnPressed"
    /\ sig.set_alignment = 2
    /\ CheckedSet = {"right"}
    /\ textblk_item = "blk"
    /\ blkitem.alignment = 2

====
